---- MODULE Spec2Model ----
(***************************************************************************)
(* A model of the DNDC configuration editor (src/update_config.py) and of  *)
(* the DNDC output dashboard (src/dndc_dashboard.py).                      *)
(*                                                                         *)
(* JSON values are tagged records [t, s, n, d]: t is the Python type of    *)
(* the value, s the payload of a string, n the payload of a number (a      *)
(* float counts in units of 1/One) and d the payload of a date mapping     *)
(* {"year", "month", "day"}.  An event record and an overlay mapping are   *)
(* functions from field names to values; a list is a sequence.             *)
(***************************************************************************)
EXTENDS Integers, Sequences, FiniteSets, TLC

VARIABLES
    pc,          \* the step the session is at
    json_data,   \* the uploaded configuration document
    event_dict,  \* the Edit Overlay handed to input_config_replacement
    soil_dict,   \* the soil overlay handed to soil_config_replacement
    doc,         \* the document returned by the last replacement / generation
    first,       \* the document returned by the first replacement pass
    npass,       \* the number of passes of input_config_replacement so far
    lst,         \* what input_config_list returned
    years,       \* the (first_year, last_year) pair used for auto-fertilization
    item,        \* the event record display_widgets is working on
    widgets,     \* the controls display_widgets has shown
    dataframes,        \* the Category Map of the dashboard
    global_min_date,   \* the earliest date the dashboard offers
    global_max_date,   \* the latest date the dashboard offers
    start_date,        \* the min_date handed to return_output_df
    end_date,          \* the max_date handed to return_output_df
    df                 \* the table return_output_df returned

\* the state of the dashboard (src/dndc_dashboard.py)
dash_vars == <<dataframes, global_min_date, global_max_date, start_date, end_date, df>>

vars == <<pc, json_data, event_dict, soil_dict, doc, first, npass, lst, years,
          item, widgets, dash_vars>>

----------------------------------------------------------------------------
(* Bounds of the model *)

\* the longest events list of an uploaded document
MaxEvents == 3
\* how many times the same overlay is merged into a document
MaxPass == 2
\* the event years of an uploaded document run from 2001 to 2001 + MaxSpan
MaxSpan == 2
\* the longest events list of a document handed to the auto-fertilization handler
MaxDated == 2

----------------------------------------------------------------------------
(* JSON values *)

\* 1.0 as a float payload: floats count in units of 1/One
One == 324

StrV(s) == [t |-> "str", s |-> s, n |-> 0, d |-> <<>>]
IntV(n) == [t |-> "int", s |-> "", n |-> n, d |-> <<>>]
FloatV(n) == [t |-> "float", s |-> "", n |-> n, d |-> <<>>]
BoolV(b) == [t |-> "bool", s |-> "", n |-> IF b THEN 1 ELSE 0, d |-> <<>>]
None == [t |-> "null", s |-> "", n |-> 0, d |-> <<>>]
EmptyList == [t |-> "list", s |-> "", n |-> 0, d |-> <<>>]
\* {"year": y, "month": m, "day": dd}
DateV(y, m, dd) == [t |-> "dict", s |-> "", n |-> 0, d |-> <<y, m, dd>>]
\* {} : a mapping that carries no "year"
EmptyDict == [t |-> "dict", s |-> "", n |-> 0, d |-> <<>>]
\* float('inf') and float('-inf')
Inf == [t |-> "float", s |-> "inf", n |-> 0, d |-> <<>>]
NegInf == [t |-> "float", s |-> "-inf", n |-> 0, d |-> <<>>]

\* dict.get(key, default)
Get(m, key, default) == IF key \in DOMAIN m THEN m[key] ELSE default

\* the truth value Python gives a JSON value in `if value:`
Truthy(v) ==
    CASE v.t = "null" -> FALSE
      [] v.t = "str" -> v.s # ""
      [] v.t \in {"int", "bool"} -> v.n # 0
      [] v.t = "float" -> v.n # 0 \/ v.s # ""
      [] v.t = "list" -> FALSE
      [] v.t = "dict" -> v.d # <<>>
      [] OTHER -> TRUE

\* x in a list
InList(x, seq) == \E i \in 1..Len(seq) : seq[i] = x

\* list(dict.fromkeys(seq)): the first occurrence of every element, in order
RECURSIVE Dedup(_)
Dedup(seq) ==
    IF seq = <<>> THEN <<>>
    ELSE LET front == Dedup(SubSeq(seq, 1, Len(seq) - 1))
             last == seq[Len(seq)]
         IN IF InList(last, front) THEN front ELSE Append(front, last)

----------------------------------------------------------------------------
(* Documents *)

\* A document: sites says whether sites[0].fields[0] with its rotations[0].events
\* and soil resolves in it.
Doc(events, soil) == [sites |-> TRUE, events |-> events, soil |-> soil]
NoPathDoc == [sites |-> FALSE, events |-> <<>>, soil |-> <<>>]

\* The two shapes of json_data: a document, or a list of documents.
Unwrapped(d) == [shape |-> "dict", docs |-> <<d>>]
Wrapped(ds) == [shape |-> "list", docs |-> ds]

\* Resolve with a slip, used to test the properties: no fallback to the
\* unwrapped path
ResolveWrappedOnly(j) ==
    IF j.shape = "list" /\ Len(j.docs) >= 1 /\ j.docs[1].sites
    THEN [ok |-> TRUE, at |-> 1]
    ELSE [ok |-> FALSE, at |-> 0]

\* try: json_data[0]["sites"][0]['fields'][0]...  except: json_data["sites"][0]...
\* ok is FALSE when the second path raises too; at is the document reached.
Resolve(j) ==
    IF j.shape = "list" /\ Len(j.docs) >= 1 /\ j.docs[1].sites
    THEN [ok |-> TRUE, at |-> 1]
    ELSE IF j.shape = "dict" /\ j.docs[1].sites
    THEN [ok |-> TRUE, at |-> 1]
    ELSE [ok |-> FALSE, at |-> 0]

\* the events list reached by Resolve
EventsOf(j) == j.docs[Resolve(j).at].events

\* json_data with the events list reached by Resolve replaced
WithEvents(j, events) ==
    [j EXCEPT !.docs[Resolve(j).at].events = events]

----------------------------------------------------------------------------
(* input_config_list *)

\* st: "none" before the call, "ok" after a return, "error" after an exception
ListNone == [st |-> "none", data |-> <<>>, crop_names |-> <<>>,
             other_events |-> <<>>, data_full |-> <<>>]
ListError == [ListNone EXCEPT !.st = "error"]

\* ListStep with two slips, used to test the properties: a non-crop record is
\* kept in data even when its type was seen before
ListStepKeepsRepeats(acc, event) ==
    LET event_type == Get(event, "_event_type", None) IN
    IF ~Truthy(event_type) THEN acc
    ELSE IF event_type = StrV("crop")
    THEN LET crop == Get(event, "name", StrV("")) IN
         IF ~InList(crop, acc.crop_names)
         THEN [acc EXCEPT !.crop_names = Append(@, crop),
                          !.data = Append(@, event),
                          !.data_full = Append(@, event)]
         ELSE [acc EXCEPT !.data_full = Append(@, event)]
    ELSE [acc EXCEPT !.other_events =
                         IF InList(event_type, @) THEN @ ELSE Append(@, event_type),
                     !.data = Append(@, event),
                     !.data_full = Append(@, event)]

\* ... and data_full.append(event) indented one level deeper, beside data.append
ListStepFullBesideData(acc, event) ==
    LET event_type == Get(event, "_event_type", None) IN
    IF ~Truthy(event_type) THEN acc
    ELSE IF event_type = StrV("crop")
    THEN LET crop == Get(event, "name", StrV("")) IN
         IF ~InList(crop, acc.crop_names)
         THEN [acc EXCEPT !.crop_names = Append(@, crop),
                          !.data = Append(@, event),
                          !.data_full = Append(@, event)]
         ELSE acc
    ELSE IF ~InList(event_type, acc.other_events)
         THEN [acc EXCEPT !.other_events = Append(@, event_type),
                          !.data = Append(@, event),
                          !.data_full = Append(@, event)]
         ELSE acc

\* one turn of the loop over events
ListStep(acc, event) ==
    LET event_type == Get(event, "_event_type", None) IN
    IF ~Truthy(event_type) THEN acc
    ELSE IF event_type = StrV("crop")
    THEN LET crop == Get(event, "name", StrV("")) IN
         IF ~InList(crop, acc.crop_names)
         THEN [acc EXCEPT !.crop_names = Append(@, crop),
                          !.data = Append(@, event),
                          !.data_full = Append(@, event)]
         ELSE [acc EXCEPT !.data_full = Append(@, event)]
    ELSE IF ~InList(event_type, acc.other_events)
         THEN [acc EXCEPT !.other_events = Append(@, event_type),
                          !.data = Append(@, event),
                          !.data_full = Append(@, event)]
         ELSE [acc EXCEPT !.data_full = Append(@, event)]

RECURSIVE ListLoop(_, _)
ListLoop(acc, events) ==
    IF events = <<>> THEN acc
    ELSE ListLoop(ListStep(acc, Head(events)), Tail(events))

input_config_list(j) ==
    IF ~Resolve(j).ok THEN ListError
    ELSE LET acc == ListLoop([ListNone EXCEPT !.st = "ok"], EventsOf(j))
         IN [acc EXCEPT !.crop_names = Dedup(@), !.other_events = Dedup(@)]

----------------------------------------------------------------------------
(* convert_to_event_dict *)

\* item.copy() with '_event_type' popped
WithoutType(event) == [k \in DOMAIN event \ {"_event_type"} |-> event[k]]

\* one turn of the loop over data; an event type is the key of its entry
EventDictStep(acc, event) ==
    LET event_type == Get(event, "_event_type", None) IN
    IF ~Truthy(event_type) THEN acc
    ELSE IF event_type = StrV("crop")
    THEN LET old == IF "crop" \in DOMAIN acc THEN acc["crop"] ELSE <<>>
         IN [k \in DOMAIN acc \cup {"crop"} |->
                IF k = "crop" THEN Append(old, WithoutType(event)) ELSE acc[k]]
    ELSE [k \in DOMAIN acc \cup {event_type.s} |->
                IF k = event_type.s THEN WithoutType(event) ELSE acc[k]]

RECURSIVE EventDictLoop(_, _)
EventDictLoop(acc, data) ==
    IF data = <<>> THEN acc
    ELSE EventDictLoop(EventDictStep(acc, Head(data)), Tail(data))

convert_to_event_dict(data) == EventDictLoop(<<>>, data)

----------------------------------------------------------------------------
(* input_config_replacement *)

\* what a function returns when the events / soil path resolves under neither shape
DocError == [shape |-> "error", docs |-> <<>>]
\* no document yet
DocNone == [shape |-> "none", docs |-> <<>>]

\* Overwrite with a slip, used to test the properties: event[key] += value on
\* the float fields the record already has
OverwriteAdds(event, config) ==
    [k \in DOMAIN event \cup DOMAIN config |->
        IF k \notin DOMAIN config THEN event[k]
        ELSE IF k \in DOMAIN event /\ event[k].t = "float" /\ config[k].t = "float"
        THEN FloatV(event[k].n + config[k].n)
        ELSE config[k]]

\* for key, value in config.items(): event[key] = value
Overwrite(event, config) ==
    [k \in DOMAIN event \cup DOMAIN config |->
        IF k \in DOMAIN config THEN config[k] ELSE event[k]]

\* NameMatches with a slip, used to test the properties: the name is not compared
NameMatchesAlways(event, crop_config) == TRUE

\* event.get('name', '') == crop_config.get('name', '')
NameMatches(event, crop_config) ==
    Get(event, "name", StrV("")) = Get(crop_config, "name", StrV(""))

\* for crop_config in event_dict["crop"]: overwrite when the names match.
\* The print after the inner loop reads key, which a non-empty crop_config binds;
\* the crop mappings of the model all carry a name.
RECURSIVE CropLoop(_, _)
CropLoop(event, configs) ==
    IF configs = <<>> THEN event
    ELSE CropLoop(IF NameMatches(event, Head(configs))
                  THEN Overwrite(event, Head(configs))
                  ELSE event,
                  Tail(configs))

\* event_type and event_dict.get(event_type, None); the overlay is keyed by the
\* event types, which are strings
HasEntry(ed, event_type) ==
    /\ Truthy(event_type)
    /\ event_type.t = "str"
    /\ event_type.s \in DOMAIN ed
    /\ DOMAIN ed[event_type.s] # {}

\* the body of the loop over events
ReplaceEvent(ed, event) ==
    LET event_type == Get(event, "_event_type", None) IN
    IF ~HasEntry(ed, event_type) THEN event
    ELSE IF event_type = StrV("crop")
    THEN CropLoop(event, ed["crop"])
    ELSE Overwrite(event, ed[event_type.s])

input_config_replacement(ed, j) ==
    IF ~Resolve(j).ok THEN DocError
    ELSE WithEvents(j, [i \in 1..Len(EventsOf(j)) |-> ReplaceEvent(ed, EventsOf(j)[i])])

----------------------------------------------------------------------------
(* soil_config_replacement *)

\* the soil record reached by the soil path
SoilOf(j) == j.docs[Resolve(j).at].soil

\* SoilMerge with a slip, used to test the properties: soil_data.update(soil_dict)
SoilMergeUpdate(soil_data, sd) ==
    [key \in DOMAIN soil_data \cup DOMAIN sd |->
        IF key \in DOMAIN sd THEN sd[key] ELSE soil_data[key]]

\* for key in soil_data.keys(): if key in soil_dict: soil_data[key] = soil_dict[key]
SoilMerge(soil_data, sd) ==
    [key \in DOMAIN soil_data |->
        IF key \in DOMAIN sd THEN sd[key] ELSE soil_data[key]]

soil_config_replacement(sd, j) ==
    IF ~Resolve(j).ok THEN DocError
    ELSE [j EXCEPT !.docs[Resolve(j).at].soil = SoilMerge(SoilOf(j), sd)]

----------------------------------------------------------------------------
(* find_first_last_years *)

\* date.get('year', None) of event.get(key, {})
YearOf(event, key) ==
    LET date == Get(event, key, EmptyDict) IN
    IF Len(date.d) = 3 THEN IntV(date.d[1]) ELSE None

\* a < b on the numbers that meet here: integers, float('inf') and float('-inf')
Less(a, b) ==
    IF a = b THEN FALSE
    ELSE IF a = NegInf \/ b = Inf THEN TRUE
    ELSE IF a = Inf \/ b = NegInf THEN FALSE
    ELSE a.n < b.n

\* min(a, b) and max(a, b)
Min(a, b) == IF Less(b, a) THEN b ELSE a
Max(a, b) == IF Less(a, b) THEN b ELSE a

\* YearsStep with a slip, used to test the properties: a record counts only
\* when it carries both years
YearsStepBothDates(acc, event) ==
    LET start_year == YearOf(event, "start_date")
        end_year == YearOf(event, "end_date")
    IN IF start_year # None /\ end_year # None
       THEN << Min(acc[1], start_year), Max(acc[2], end_year) >>
       ELSE acc

\* one turn of the loop over the events; acc is <<first_year, last_year>>
YearsStep(acc, event) ==
    LET start_year == YearOf(event, "start_date")
        end_year == YearOf(event, "end_date")
    IN << IF start_year # None THEN Min(acc[1], start_year) ELSE acc[1],
          IF end_year # None THEN Max(acc[2], end_year) ELSE acc[2] >>

RECURSIVE YearsLoop(_, _)
YearsLoop(acc, events) ==
    IF events = <<>> THEN acc
    ELSE YearsLoop(YearsStep(acc, Head(events)), Tail(events))

find_first_last_years(crop_events) == YearsLoop(<<Inf, NegInf>>, crop_events)

----------------------------------------------------------------------------
(* generate_autofertilization_event *)

\* Strings are sequences of characters here: the dates are formatted, split
\* on "-" and parsed back.
DigitChars == <<"0", "1", "2", "3", "4", "5", "6", "7", "8", "9">>

RECURSIVE Digits(_)
Digits(n) ==
    IF n < 10 THEN <<DigitChars[n + 1]>>
    ELSE Digits(n \div 10) \o <<DigitChars[(n % 10) + 1]>>

\* f"{year}"
FormatInt(n) == IF n < 0 THEN <<"-">> \o Digits(-n) ELSE Digits(n)

\* f"{year}-01-01" and f"{year}-12-30"
FormatStart(year) == FormatInt(year) \o <<"-", "0", "1", "-", "0", "1">>
FormatEnd(year) == FormatInt(year) \o <<"-", "1", "2", "-", "3", "0">>

\* text.split("-")
RECURSIVE Split(_)
Split(text) ==
    IF \A i \in 1..Len(text) : text[i] # "-" THEN <<text>>
    ELSE LET i == CHOOSE k \in 1..Len(text) :
                      text[k] = "-" /\ \A m \in 1..(k - 1) : text[m] # "-"
         IN <<SubSeq(text, 1, i - 1)>> \o Split(SubSeq(text, i + 1, Len(text)))

\* the value of a digit character
DigitValue(c) == CHOOSE v \in 0..9 : DigitChars[v + 1] = c

\* int(text) of a string of digits; ok is FALSE where int raises ValueError
RECURSIVE DigitsValue(_)
DigitsValue(text) ==
    IF text = <<>> THEN 0
    ELSE 10 * DigitsValue(SubSeq(text, 1, Len(text) - 1)) + DigitValue(text[Len(text)])

ParseInt(text) ==
    IF text # <<>> /\ \A i \in 1..Len(text) : \E v \in 0..9 : DigitChars[v + 1] = text[i]
    THEN [ok |-> TRUE, n |-> DigitsValue(text)]
    ELSE [ok |-> FALSE, n |-> 0]

\* year_s, month_s, day_s = text.split("-") and the mapping of the three ints;
\* ok is FALSE where the unpacking or an int() raises
ParseDate(text) ==
    LET parts == Split(text) IN
    IF Len(parts) # 3 THEN [ok |-> FALSE, v |-> None]
    ELSE IF \E i \in 1..3 : ~ParseInt(parts[i]).ok THEN [ok |-> FALSE, v |-> None]
    ELSE [ok |-> TRUE,
          v |-> DateV(ParseInt(parts[1]).n, ParseInt(parts[2]).n, ParseInt(parts[3]).n)]

\* the record appended for one year; built only where both dates parse
AutoFertEvent(year) ==
    ("_event_type" :> StrV("alt_fertilizer")) @@ ("method" :> StrV("auto-fertilizer"))
    @@ ("start_date" :> ParseDate(FormatStart(year)).v)
    @@ ("end_date" :> ParseDate(FormatEnd(year)).v)

\* last_year + 1
PlusOne(v) == IF v.t = "int" THEN IntV(v.n + 1) ELSE v

\* RangeYears with a slip, used to test the properties: range(first_year, last_year)
RangeYearsShort(first_year, last_year) ==
    [n \in 1..(last_year.n - first_year.n) |-> first_year.n + n - 1]

\* range(first_year, last_year + 1) accepts integers only
RangeOk(first_year, last_year) ==
    first_year.t = "int" /\ PlusOne(last_year).t = "int"

\* the years of range(first_year, last_year + 1), in order
RangeYears(first_year, last_year) ==
    [n \in 1..(last_year.n + 1 - first_year.n) |-> first_year.n + n - 1]

generate_autofertilization_event(j, first_year, last_year) ==
    IF ~RangeOk(first_year, last_year) THEN DocError
    ELSE IF ~Resolve(j).ok THEN DocError
    ELSE LET dates == RangeYears(first_year, last_year) IN
         IF \E n \in 1..Len(dates) :
                ~ParseDate(FormatStart(dates[n])).ok \/ ~ParseDate(FormatEnd(dates[n])).ok
         THEN DocError
         ELSE WithEvents(j, EventsOf(j) \o [n \in 1..Len(dates) |-> AutoFertEvent(dates[n])])

----------------------------------------------------------------------------
(* display_widgets *)

\* frac_keys, in the order of the list
frac_keys == <<"frac_grain", "frac_leaf", "frac_root", "frac_stem">>
FracKeySet == { frac_keys[i] : i \in 1..Len(frac_keys) }

\* "frac_" in str(key) and "depth" in str(key), on the field names of the model
ContainsFrac(key) == key \in FracKeySet
ContainsDepth(key) == key \in {"depth", "root_depth"}

\* value.lower() of a string value
LowerStr(text) ==
    CASE text \in {"True", "TRUE", "true"} -> "true"
      [] text \in {"False", "FALSE", "false"} -> "false"
      [] OTHER -> text

\* str(value).lower() of an int or a bool, as a sequence of characters
StrLowerOfInt(value) ==
    IF value.t = "bool"
    THEN IF value.n = 1 THEN <<"t", "r", "u", "e">> ELSE <<"f", "a", "l", "s", "e">>
    ELSE FormatInt(value.n)

\* ... in ("true", "false", True, False): no string equals True or False
IsBoolToken(chars) == chars \in { <<"t", "r", "u", "e">>, <<"f", "a", "l", "s", "e">> }

normalize_to_bool(value) ==
    IF value.t = "str" THEN BoolV(LowerStr(value.s) = "true") ELSE BoolV(Truthy(value))

\* A control that was shown: its kind, its bounds (of a slider, else 0), the
\* value it showed, the value it returned, and whether the call returned (a
\* slider raises when the value it is to show lies outside its bounds).
Control(kind, lo, hi, shown, ret, ok) ==
    [kind |-> kind, lo |-> lo, hi |-> hi, shown |-> shown, ret |-> ret, ok |-> ok]

\* st.sidebar.slider(label, lo, hi, value); pick is where the user leaves it
Slider(lo, hi, value, pick) ==
    IF lo <= value.n /\ value.n <= hi
    THEN Control("slider", lo, hi, value, FloatV(pick), TRUE)
    ELSE Control("slider", lo, hi, value, value, FALSE)

\* st.sidebar.checkbox(label, value=value); toggle: the user flips it
Checkbox(value, toggle) ==
    Control("checkbox", 0, 0, value, IF toggle THEN BoolV(value.n = 0) ELSE value, TRUE)

\* st.sidebar.number_input(label, value=value); step: the user steps it up
NumberInput(value, step) ==
    Control("number_input", 0, 0, value, IF step THEN IntV(value.n + 1) ELSE value, TRUE)

\* st.sidebar.text_input(label, value=value); text: what the user leaves in it
TextInput(value, text) ==
    Control("text_input", 0, 0, value, StrV(text), TRUE)

\* no control: the value is of none of the tested types
NoControl(value) == Control("none", 0, 0, value, value, TRUE)

\* Dispatch with a slip, used to test the properties: the int branch does not
\* look for a boolean token, so a bool (an int to isinstance) gets a number input
DispatchBoolAsNumber(is_crop, key, value, change) ==
    IF value.t = "float"
    THEN IF ~is_crop /\ ContainsDepth(key)
         THEN Slider(0, 200 * One, value, IF change THEN 200 * One ELSE value.n)
         ELSE LET max_value == IF value.n = 0 THEN One ELSE value.n * 3
              IN Slider(0, max_value, value, IF change THEN max_value ELSE value.n)
    ELSE IF value.t \in {"int", "bool"}
    THEN NumberInput(value, change)
    ELSE IF value.t = "str"
    THEN IF LowerStr(value.s) \in {"true", "false"}
         THEN Checkbox(normalize_to_bool(value), change)
         ELSE TextInput(value, IF change THEN "edited" ELSE value.s)
    ELSE NoControl(value)

\* The chain of isinstance tests on one field.  change: the user moves the
\* control (a slider to its upper bound, a checkbox flipped, a number stepped
\* up, a text replaced).
Dispatch(is_crop, key, value, change) ==
    IF value.t = "float"
    THEN IF ~is_crop /\ ContainsDepth(key)
         THEN Slider(0, 200 * One, value, IF change THEN 200 * One ELSE value.n)
         ELSE LET max_value == IF value.n = 0 THEN One ELSE value.n * 3
              IN Slider(0, max_value, value, IF change THEN max_value ELSE value.n)
    ELSE IF value.t \in {"int", "bool"}
    THEN IF IsBoolToken(StrLowerOfInt(value))
         THEN Checkbox(normalize_to_bool(value), change)
         ELSE NumberInput(value, change)
    ELSE IF value.t = "str"
    THEN IF LowerStr(value.s) \in {"true", "false"}
         THEN Checkbox(normalize_to_bool(value), change)
         ELSE TextInput(value, IF change THEN "edited" ELSE value.s)
    ELSE NoControl(value)

\* the fields the generic loop dispatches
GenericKeys(is_crop, rec) ==
    IF is_crop
    THEN { k \in DOMAIN rec : ~ContainsFrac(k) /\ k # "_event_type" /\ k # "name" }
    ELSE { k \in DOMAIN rec : k # "_event_type" }

\* fracs[key] / total_frac for every key, when the fractions do not sum to 1
Normalize(fracs) ==
    LET total_frac == fracs[frac_keys[1]] + fracs[frac_keys[2]]
                        + fracs[frac_keys[3]] + fracs[frac_keys[4]]
    IN IF total_frac # One
       THEN [k \in FracKeySet |-> (fracs[k] * One) \div total_frac]
       ELSE fracs

\* FracStep with a slip, used to test the properties: if delta > 0
FracStepUpOnly(st, key, picks) ==
    IF ~st.ok THEN st
    ELSE LET control == Slider(0, One, FloatV(st.fracs[key]),
                               IF picks[key] = -1 THEN st.fracs[key] ELSE picks[key])
             new_value == control.ret.n
             delta == new_value - st.fracs[key]
         IN IF ~control.ok
            THEN [st EXCEPT !.ok = FALSE, !.shown = @ @@ (key :> control)]
            ELSE [fracs |-> [k \in FracKeySet |->
                               IF k = key THEN new_value
                               ELSE IF delta > 0 THEN st.fracs[k] - (delta \div 3)
                               ELSE st.fracs[k]],
                  shown |-> st.shown @@ (key :> control),
                  ok |-> TRUE]

\* one slider of the fraction loop: st is [fracs, shown, ok]; picks[key] is the
\* value the user leaves the slider at, -1 for the value it shows
FracStep(st, key, picks) ==
    IF ~st.ok THEN st
    ELSE LET control == Slider(0, One, FloatV(st.fracs[key]),
                               IF picks[key] = -1 THEN st.fracs[key] ELSE picks[key])
             new_value == control.ret.n
             delta == new_value - st.fracs[key]
         IN IF ~control.ok
            THEN [st EXCEPT !.ok = FALSE, !.shown = @ @@ (key :> control)]
            ELSE [fracs |-> [k \in FracKeySet |->
                               IF k = key THEN new_value
                               ELSE IF delta # 0 THEN st.fracs[k] - (delta \div 3)
                               ELSE st.fracs[k]],
                  shown |-> st.shown @@ (key :> control),
                  ok |-> TRUE]

RECURSIVE FracLoop(_, _, _)
FracLoop(st, keys, picks) ==
    IF keys = <<>> THEN st
    ELSE FracLoop(FracStep(st, Head(keys), picks), Tail(keys), picks)

\* display_widgets on one record: [ok, item, shown].  ok is FALSE when a control
\* raised; the controls of the generic loop are then all listed, whatever the
\* order of the record's keys.
display_widgets(rec, picks, name, change) ==
    LET is_crop == rec["_event_type"] = StrV("crop") IN
    IF is_crop
    THEN LET name_control == TextInput(rec["name"], name)
             named == [rec EXCEPT !["name"] = name_control.ret]
             total_frac == rec[frac_keys[1]].n + rec[frac_keys[2]].n
                             + rec[frac_keys[3]].n + rec[frac_keys[4]].n
         IN IF total_frac = 0
            THEN [ok |-> FALSE, item |-> named, shown |-> ("name" :> name_control)]
            ELSE
            LET fl == FracLoop([fracs |-> Normalize([k \in FracKeySet |-> rec[k].n]),
                                shown |-> ("name" :> name_control), ok |-> TRUE],
                               frac_keys, picks)
                with_fracs == [k \in DOMAIN named |->
                                  IF k \in FracKeySet THEN FloatV(fl.fracs[k]) ELSE named[k]]
                generic == [k \in GenericKeys(TRUE, rec) |->
                               Dispatch(TRUE, k, rec[k], change)]
            IN IF ~fl.ok THEN [ok |-> FALSE, item |-> named, shown |-> fl.shown]
               ELSE [ok |-> \A k \in DOMAIN generic : generic[k].ok,
                     item |-> [k \in DOMAIN rec |->
                                  IF k \in DOMAIN generic THEN generic[k].ret
                                  ELSE with_fracs[k]],
                     shown |-> [k \in DOMAIN fl.shown \cup
                                     { g \in DOMAIN generic : generic[g].kind # "none" } |->
                                  IF k \in DOMAIN fl.shown THEN fl.shown[k] ELSE generic[k]]]
    ELSE LET generic == [k \in GenericKeys(FALSE, rec) |->
                            Dispatch(FALSE, k, rec[k], change)]
         IN [ok |-> \A k \in DOMAIN generic : generic[k].ok,
             item |-> [k \in DOMAIN rec |->
                          IF k \in DOMAIN generic THEN generic[k].ret ELSE rec[k]],
             shown |-> [k \in { g \in DOMAIN generic : generic[g].kind # "none" } |->
                          generic[k]]]

----------------------------------------------------------------------------
(* The dashboard: tables *)

\* A table (DataFrame) is [columns, rows]: the column names in order and the
\* rows, each a function from the column names to integers.  A category
\* structure of the uploaded document is a function on a subset of
\* {"columns", "data"}; its data is a list of rows, each a list of integers.
\* A date (Timestamp) is its proleptic Gregorian ordinal, as date.toordinal().

\* the result of min() / max() on an empty Date column
NaT == 0

\* no table
NoTable == [columns |-> <<>>, rows |-> <<>>]

\* the elements of a list
Range(seq) == { seq[i] : i \in 1..Len(seq) }

\* list.index(x)
IndexOf(seq, x) == CHOOSE i \in 1..Len(seq) : seq[i] = x

\* pd.DataFrame(data, columns=columns); ok is FALSE where the constructor
\* raises: a row whose length is not the number of columns
DataFrame(data, columns) ==
    IF \E i \in 1..Len(data) : Len(data[i]) # Len(columns)
    THEN [ok |-> FALSE, df |-> NoTable]
    ELSE [ok |-> TRUE,
          df |-> [columns |-> columns,
                  rows |-> [i \in 1..Len(data) |->
                               [c \in Range(columns) |-> data[i][IndexOf(columns, c)]]]]]

\* columns = x['columns']; data = x['data']; pd.DataFrame(data, columns=columns);
\* ok is FALSE where one of the three raises
LoadTable(structure) ==
    IF "columns" \notin DOMAIN structure \/ "data" \notin DOMAIN structure
    THEN [ok |-> FALSE, df |-> NoTable]
    ELSE DataFrame(structure["data"], structure["columns"])

\* the loop over category_data.items() of the 'crops' category: an exception
\* leaves the loop with the tables loaded so far
RECURSIVE CropsLoop(_, _)
CropsLoop(loaded, crops) ==
    IF crops = <<>> THEN loaded
    ELSE LET t == LoadTable(Head(crops).crop_data) IN
         IF ~t.ok THEN loaded
         ELSE CropsLoop(Append(loaded, [crop_key |-> Head(crops).crop_key, df |-> t.df]),
                        Tail(crops))

\* one turn of the loop over json_data.items(); the try block swallows every
\* exception, after dfs['crops'] = {} has been set
ConvertStep(dfs, entry) ==
    IF entry.category = "crops"
    THEN Append(dfs, [category |-> "crops", df |-> CropsLoop(<<>>, entry.category_data)])
    ELSE LET t == LoadTable(entry.category_data) IN
         IF t.ok THEN Append(dfs, [category |-> entry.category, df |-> t.df])
         ELSE dfs

RECURSIVE ConvertLoop(_, _)
ConvertLoop(dfs, entries) ==
    IF entries = <<>> THEN dfs
    ELSE ConvertLoop(ConvertStep(dfs, Head(entries)), Tail(entries))

convert_json_to_dfs_updated(j) == ConvertLoop(<<>>, j)

----------------------------------------------------------------------------
(* The dashboard: dates *)

\* date(year, 1, 1).toordinal()
JanFirst(year) ==
    365 * (year - 1) + ((year - 1) \div 4) - ((year - 1) \div 100)
        + ((year - 1) \div 400) + 1

\* pd.Timestamp('3000-01-01') and pd.Timestamp('1900-01-01')
Timestamp3000 == JanFirst(3000)
Timestamp1900 == JanFirst(1900)

\* the years a Timestamp holds in full
TimestampYears == 1678..2261

\* pd.to_datetime(text, format='%Y%j'): %Y takes four digits, %j the one to
\* three digits that follow, from 1 to 366, and nothing may remain; the date
\* is Jan 1 of the year plus the day of the year minus one
ParseYearDay(text) ==
    IF Len(text) < 5 \/ Len(text) > 7 THEN [ok |-> FALSE, date |-> NaT]
    ELSE LET y == ParseInt(SubSeq(text, 1, 4))
             j == ParseInt(SubSeq(text, 5, Len(text)))
         IN IF y.ok /\ j.ok /\ y.n \in TimestampYears /\ 1 <= j.n /\ j.n <= 366
            THEN [ok |-> TRUE, date |-> JanFirst(y.n) + j.n - 1]
            ELSE [ok |-> FALSE, date |-> NaT]

\* the Date of a row: Year.astype(str) + Day.astype(str), parsed
ReconstructDate(year, day) == ParseYearDay(FormatInt(year) \o FormatInt(day))

\* pd.to_datetime(df['Year'].astype(str) + df['Day'].astype(str), format='%Y%j'):
\* ok is FALSE where a column is missing or a row does not parse
DatesOf(table) ==
    IF "Year" \notin Range(table.columns) \/ "Day" \notin Range(table.columns)
    THEN [ok |-> FALSE, dates |-> <<>>]
    ELSE LET parsed == [i \in 1..Len(table.rows) |->
                           ReconstructDate(table.rows[i]["Year"], table.rows[i]["Day"])]
         IN IF \E i \in 1..Len(parsed) : ~parsed[i].ok
            THEN [ok |-> FALSE, dates |-> <<>>]
            ELSE [ok |-> TRUE, dates |-> [i \in 1..Len(parsed) |-> parsed[i].date]]

\* df['Date'] = dates
WithDate(table, dates) ==
    [columns |-> IF "Date" \in Range(table.columns) THEN table.columns
                 ELSE Append(table.columns, "Date"),
     rows |-> [i \in 1..Len(table.rows) |->
                  [c \in DOMAIN table.rows[i] \cup {"Date"} |->
                      IF c = "Date" THEN dates[i] ELSE table.rows[i][c]]]]

\* dataframes[column]
Lookup(dfs, column) == dfs[CHOOSE i \in 1..Len(dfs) : dfs[i].category = column].df

\* return_output_df with a slip, used to test the properties: Date < max_date
return_output_df_open(dfs, column, min_date, max_date) ==
    LET df_ == Lookup(dfs, column)
        d == DatesOf(df_)
    IN IF ~d.ok THEN [ok |-> FALSE, df |-> NoTable, dataframes |-> dfs]
       ELSE LET dated == WithDate(df_, d.dates)
                InRange(row) == row["Date"] >= min_date /\ row["Date"] < max_date
            IN [ok |-> TRUE,
                df |-> [columns |-> dated.columns, rows |-> SelectSeq(dated.rows, InRange)],
                dataframes |-> [i \in 1..Len(dfs) |->
                                   IF dfs[i].category = column
                                   THEN [dfs[i] EXCEPT !.df = dated] ELSE dfs[i]]]

\* return_output_df(dataframes, column, min_date=..., max_date=...): the table
\* it returns, and dataframes, whose table gains the Date column; ok is FALSE
\* where to_datetime raises
return_output_df(dfs, column, min_date, max_date) ==
    LET df_ == Lookup(dfs, column)
        d == DatesOf(df_)
    IN IF ~d.ok THEN [ok |-> FALSE, df |-> NoTable, dataframes |-> dfs]
       ELSE LET dated == WithDate(df_, d.dates)
                InRange(row) == row["Date"] >= min_date /\ row["Date"] <= max_date
            IN [ok |-> TRUE,
                df |-> [columns |-> dated.columns, rows |-> SelectSeq(dated.rows, InRange)],
                dataframes |-> [i \in 1..Len(dfs) |->
                                   IF dfs[i].category = column
                                   THEN [dfs[i] EXCEPT !.df = dated] ELSE dfs[i]]]

----------------------------------------------------------------------------
(* The dashboard: the scan for the global minimum and maximum dates *)

\* Series.min() and Series.max() of a Date column
ColumnMin(dates) ==
    IF dates = <<>> THEN NaT
    ELSE CHOOSE x \in Range(dates) : \A y \in Range(dates) : x <= y
ColumnMax(dates) ==
    IF dates = <<>> THEN NaT
    ELSE CHOOSE x \in Range(dates) : \A y \in Range(dates) : y <= x

\* min(a, b) and max(a, b) of Python on Timestamps: b when b < a (b > a), else
\* a; every comparison with NaT is False
MinDate(a, b) == IF b # NaT /\ a # NaT /\ b < a THEN b ELSE a
MaxDate(a, b) == IF b # NaT /\ a # NaT /\ b > a THEN b ELSE a

\* the state of the scan: the two globals, the loop's min_date and max_date
\* (bound is FALSE while they are unassigned), and ok, FALSE once an exception
\* has left the script
ScanStart ==
    [global_min_date |-> Timestamp3000, global_max_date |-> Timestamp1900,
     min_date |-> NaT, max_date |-> NaT, bound |-> FALSE, ok |-> TRUE]

\* the loop over df.items() of the 'crops' entry: no try block around it
RECURSIVE ScanCrops(_, _)
ScanCrops(st, crops) ==
    IF crops = <<>> \/ ~st.ok THEN st
    ELSE LET d == DatesOf(Head(crops).df) IN
         IF ~d.ok THEN [st EXCEPT !.ok = FALSE]
         ELSE ScanCrops([st EXCEPT !.min_date = ColumnMin(d.dates),
                                   !.max_date = ColumnMax(d.dates),
                                   !.bound = TRUE],
                        Tail(crops))

\* global_min_date = min(global_min_date, min_date) and its twin, after each
\* category: NameError while min_date is unassigned
Accumulate(st) ==
    IF ~st.ok THEN st
    ELSE IF ~st.bound THEN [st EXCEPT !.ok = FALSE]
    ELSE [st EXCEPT !.global_min_date = MinDate(@, st.min_date),
                    !.global_max_date = MaxDate(@, st.max_date)]

\* one turn of the loop over dataframes.items()
ScanStep(st, entry) ==
    IF ~st.ok THEN st
    ELSE IF entry.category # "crops"
    THEN LET d == DatesOf(entry.df) IN
         Accumulate(IF d.ok
                    THEN [st EXCEPT !.min_date = ColumnMin(d.dates),
                                    !.max_date = ColumnMax(d.dates),
                                    !.bound = TRUE]
                    ELSE st)
    ELSE Accumulate(ScanCrops(st, entry.df))

RECURSIVE ScanLoop(_, _)
ScanLoop(st, dfs) ==
    IF dfs = <<>> THEN st
    ELSE ScanLoop(ScanStep(st, Head(dfs)), Tail(dfs))

\* st.sidebar.date_input(label, min_value=lo, max_value=hi, value=value): it
\* raises when the value lies outside the bounds
DateInputOk(lo, hi, value) == lo <= value /\ value <= hi

----------------------------------------------------------------------------
(* The inputs of the document operations *)

CropEvent(name, tdd) ==
    ("_event_type" :> StrV("crop")) @@ ("name" :> StrV(name)) @@ ("tdd" :> FloatV(tdd))
OtherEvent(type, method) ==
    ("_event_type" :> StrV(type)) @@ ("method" :> StrV(method))
\* a record that carries no '_event_type'
UntypedEvent == ("method" :> StrV("drip"))
\* a crop record that carries no 'name'
NamelessCrop == ("_event_type" :> StrV("crop")) @@ ("tdd" :> FloatV(One))

EventPool ==
    { CropEvent("A", One), CropEvent("A", 2 * One), CropEvent("B", One),
      OtherEvent("autoirrigation", "drip"), OtherEvent("autoirrigation", "furrow"),
      OtherEvent("alt_fertilizer", "auto-fertilizer"), UntypedEvent, NamelessCrop }

EventLists == UNION { [1..n -> EventPool] : n \in 0..MaxEvents }

SoilSample == ("clay" :> FloatV(One)) @@ ("ph" :> FloatV(7 * One))

JsonInputs ==
    { Unwrapped(Doc(es, SoilSample)) : es \in EventLists }
    \cup { Wrapped(<<Doc(es, SoilSample)>>) : es \in EventLists }
    \cup { Unwrapped(NoPathDoc), Wrapped(<<NoPathDoc>>), Wrapped(<<>>) }

CropConfig(name, tdd) == ("name" :> StrV(name)) @@ ("tdd" :> FloatV(tdd))
IrrigationConfig == ("method" :> StrV("flood")) @@ ("depth" :> FloatV(One))

\* Overlays as convert_to_event_dict builds them: no mapping carries '_event_type',
\* every crop mapping carries its name.
Overlays ==
    { <<>>,
      "crop" :> <<CropConfig("A", 3 * One)>>,
      "crop" :> <<CropConfig("A", 3 * One), CropConfig("A", 4 * One)>>,
      "autoirrigation" :> IrrigationConfig,
      ("crop" :> <<CropConfig("B", 3 * One), CropConfig("A", 4 * One)>>)
          @@ ("autoirrigation" :> IrrigationConfig),
      ("crop" :> <<>>) @@ ("alt_fertilizer" :> <<>>) }

----------------------------------------------------------------------------
(* The document operations as a state machine: the functions are applied  *)
(* to an uploaded document and an overlay drawn from the sets above.       *)

ItemNone == <<>>

Init ==
    /\ pc = "doc"
    /\ json_data \in JsonInputs
    /\ event_dict \in Overlays
    /\ soil_dict = <<>>
    /\ doc = DocNone
    /\ first = DocNone
    /\ npass = 0
    /\ lst = ListNone
    /\ years = <<None, None>>
    /\ item = ItemNone
    /\ widgets = <<>>
    /\ dataframes = <<>>
    /\ global_min_date = NaT
    /\ global_max_date = NaT
    /\ start_date = NaT
    /\ end_date = NaT
    /\ df = NoTable

\* data, crop_names, other_events, data_full = input_config_list(uploaded_file)
ExtractList ==
    /\ pc = "doc"
    /\ lst.st = "none"
    /\ lst' = input_config_list(json_data)
    /\ UNCHANGED <<dash_vars, pc, json_data, event_dict, soil_dict, doc, first, npass, years,
                   item, widgets>>

\* input_config_replacement(event_dict, json_data), on the upload and then on
\* the document it returned
Replace ==
    /\ pc = "doc"
    /\ npass < MaxPass
    /\ npass > 0 => doc.shape # "error"
    /\ doc' = input_config_replacement(event_dict, IF npass = 0 THEN json_data ELSE doc)
    /\ first' = IF npass = 0 THEN doc' ELSE first
    /\ npass' = npass + 1
    /\ UNCHANGED <<dash_vars, pc, json_data, event_dict, soil_dict, lst, years, item, widgets>>

Next == ExtractList \/ Replace

Spec == Init /\ [][Next]_vars

----------------------------------------------------------------------------
(* Vocabulary of the properties *)

\* the indices of S in ascending order
RECURSIVE Ascending(_)
Ascending(S) ==
    IF S = {} THEN <<>>
    ELSE LET m == CHOOSE x \in S : \A y \in S : x <= y
         IN <<m>> \o Ascending(S \ {m})

\* the records of es at the indices S, in source order
RecordsAt(es, S) == [n \in 1..Cardinality(S) |-> es[Ascending(S)[n]]]

TypeOf(e) == Get(e, "_event_type", None)
IsTyped(e) == Truthy(TypeOf(e))
IsCrop(e) == IsTyped(e) /\ TypeOf(e) = StrV("crop")
NameOf(e) == Get(e, "name", StrV(""))

\* two typed records stand for the same editor entry: the same crop name, or the
\* same non-crop type
SameEntry(e1, e2) ==
    IF IsCrop(e1) THEN IsCrop(e2) /\ NameOf(e1) = NameOf(e2)
    ELSE ~IsCrop(e2) /\ TypeOf(e1) = TypeOf(e2)

\* the indices of the first record of each crop name and of each non-crop type
Representatives(es) ==
    { i \in 1..Len(es) :
        /\ IsTyped(es[i])
        /\ \A k \in 1..(i - 1) : IsTyped(es[k]) => ~SameEntry(es[k], es[i]) }

\* the source events list of the upload
Source == EventsOf(json_data)

\* the upload's events path resolves under one of the two shapes
HasPath ==
    \/ json_data.shape = "dict" /\ json_data.docs[1].sites
    \/ json_data.shape = "list" /\ Len(json_data.docs) >= 1 /\ json_data.docs[1].sites

----------------------------------------------------------------------------
(* C1: input_config_list returns the crop names as the distinct names of    *)
(* the crop records in first-seen order, the non-crop types as the distinct *)
(* types in first-seen order, and a filtered list holding exactly the first *)
(* record of each crop name and of each non-crop type, in source order.     *)
C1_ListPartition ==
    lst.st = "ok" =>
        LET reps == Representatives(Source)
            crops == { i \in reps : IsCrop(Source[i]) }
            others == { i \in reps : ~IsCrop(Source[i]) }
        IN /\ lst.data = RecordsAt(Source, reps)
           /\ lst.crop_names = [n \in 1..Cardinality(crops) |->
                                   NameOf(RecordsAt(Source, crops)[n])]
           /\ lst.other_events = [n \in 1..Cardinality(others) |->
                                     TypeOf(RecordsAt(Source, others)[n])]

\* a list with a crop, a non-crop type and a repeated entry has been partitioned
C1_Witness ==
    /\ lst.st = "ok"
    /\ Len(lst.crop_names) >= 1
    /\ Len(lst.other_events) >= 1
    /\ Len(lst.data) < Len(lst.data_full)

(* C8 as stated: the full event list returned by input_config_list is the   *)
(* source events list, every record in source order, none left out.         *)
C8_FullListIsSource ==
    lst.st = "ok" => lst.data_full = Source

(* C8 amended: the full event list holds every record of the source list    *)
(* that carries a truthy '_event_type', in source order; a record without   *)
(* one is left out.                                                          *)
C8_FullListIsTypedSource ==
    lst.st = "ok" =>
        lst.data_full = RecordsAt(Source, { i \in 1..Len(Source) : IsTyped(Source[i]) })

\* a repeated entry is kept in the full list and an untyped record is dropped
C8_Witness ==
    /\ lst.st = "ok"
    /\ Len(lst.data) < Len(lst.data_full)
    /\ Len(lst.data_full) < Len(Source)

----------------------------------------------------------------------------
(* Vocabulary of the merge properties *)

\* the events of the document the first merge pass returned
Merged == EventsOf(first)

\* the overlay mappings that apply to record e: for a crop the crop mappings of
\* its name, for another record the mapping of its type
Applicable(e) ==
    IF ~(IsTyped(e) /\ TypeOf(e).t = "str" /\ TypeOf(e).s \in DOMAIN event_dict)
    THEN {}
    ELSE IF IsCrop(e)
    THEN { event_dict["crop"][n] : n \in { m \in 1..Len(event_dict["crop"]) :
               Get(event_dict["crop"][m], "name", StrV("")) = NameOf(e) } }
    ELSE { event_dict[TypeOf(e).s] }

\* field k of record r differs from what it was in record e
FieldChanged(e, r, k) ==
    \/ (k \in DOMAIN e) # (k \in DOMAIN r)
    \/ k \in DOMAIN e /\ k \in DOMAIN r /\ e[k] # r[k]

(* C2: input_config_replacement changes a record only in the fields named   *)
(* by the overlay entry that applies to it: a record whose type is absent   *)
(* from the overlay is untouched, a crop record is changed only by the crop *)
(* entries of its own name, a non-crop record only by its type's mapping.   *)
C2_MergeFrame ==
    (npass >= 1 /\ HasPath) =>
        /\ Len(Merged) = Len(Source)
        /\ first.shape = json_data.shape
        /\ SoilOf(first) = SoilOf(json_data)
        /\ \A i \in 1..Len(Source) :
               /\ Applicable(Source[i]) = {} => Merged[i] = Source[i]
               /\ \A k \in DOMAIN Source[i] \cup DOMAIN Merged[i] :
                      FieldChanged(Source[i], Merged[i], k) =>
                          \E c \in Applicable(Source[i]) :
                              k \in DOMAIN c /\ k \in DOMAIN Merged[i]
                                /\ Merged[i][k] = c[k]

\* crops "A" and "B" merged with an overlay that edits only "A": "A" changed,
\* "B" did not
C2_Witness ==
    /\ npass >= 1 /\ HasPath
    /\ DOMAIN event_dict = {"crop"}
    /\ \A n \in 1..Len(event_dict["crop"]) : event_dict["crop"][n]["name"] = StrV("A")
    /\ \E i, k \in 1..Len(Source) :
          /\ IsCrop(Source[i]) /\ NameOf(Source[i]) = StrV("A")
          /\ IsCrop(Source[k]) /\ NameOf(Source[k]) = StrV("B")
          /\ Merged[i] # Source[i]
          /\ Merged[k] = Source[k]

(* C3: merge is idempotent: merging the same overlay into the result of a   *)
(* merge gives the same document as merging it once.                        *)
C3_MergeIdempotent ==
    npass >= 2 => doc = first

\* a second pass was made over a document the first pass had changed
C3_Witness ==
    /\ npass >= 2
    /\ HasPath
    /\ first # json_data

(* C7: both document shapes are treated alike: on the one-element list [D]  *)
(* input_config_list returns what it returns on D and                       *)
(* input_config_replacement returns [D'] for its result D' on D; when the   *)
(* events path resolves under neither shape both fail with an error, and    *)
(* when it resolves neither does.                                           *)
C7_BothShapes ==
    /\ (HasPath /\ json_data.shape = "list") =>
          LET D == Unwrapped(json_data.docs[1]) IN
          /\ lst.st = "ok" => lst = input_config_list(D)
          /\ npass >= 1 =>
                first = Wrapped(<<input_config_replacement(event_dict, D).docs[1]>>)
    /\ HasPath => (lst.st # "error" /\ first.shape # "error")
    /\ ~HasPath => (lst.st # "ok" /\ (npass >= 1 => first = DocError))

\* a wrapped document has been listed and merged, and the merge changed it
C7_Witness ==
    /\ json_data.shape = "list" /\ HasPath
    /\ lst.st = "ok" /\ Len(lst.data) >= 2
    /\ npass >= 1 /\ first # json_data

\* an upload whose path resolves under neither shape has failed in both functions
C7_ErrorReached ==
    ~HasPath /\ lst.st = "error" /\ npass >= 1 /\ first = DocError

----------------------------------------------------------------------------
(* soil_config_replacement as a state machine *)

SoilKeys == {"clay", "ph", "bulk_density"}
SoilValues == {FloatV(One), FloatV(2 * One)}

\* the mappings from some of the soil keys to a value
SoilRecords == UNION { [ks -> SoilValues] : ks \in SUBSET SoilKeys }

SoilEvents == <<CropEvent("A", One), OtherEvent("autoirrigation", "drip")>>

SoilInputs ==
    { Unwrapped(Doc(SoilEvents, soil)) : soil \in SoilRecords }
    \cup { Wrapped(<<Doc(SoilEvents, soil)>>) : soil \in SoilRecords }
    \cup { Unwrapped(NoPathDoc), Wrapped(<<>>) }

InitSoil ==
    /\ pc = "soil"
    /\ json_data \in SoilInputs
    /\ event_dict = <<>>
    /\ soil_dict \in SoilRecords
    /\ doc = DocNone
    /\ first = DocNone
    /\ npass = 0
    /\ lst = ListNone
    /\ years = <<None, None>>
    /\ item = ItemNone
    /\ widgets = <<>>
    /\ dataframes = <<>>
    /\ global_min_date = NaT
    /\ global_max_date = NaT
    /\ start_date = NaT
    /\ end_date = NaT
    /\ df = NoTable

\* soil_config_replacement(soil_data, saved_file_path, "updated_config.json")
SoilReplace ==
    /\ pc = "soil"
    /\ doc' = soil_config_replacement(soil_dict, json_data)
    /\ pc' = "soil_done"
    /\ UNCHANGED <<dash_vars, json_data, event_dict, soil_dict, first, npass, lst, years,
                   item, widgets>>

NextSoil == SoilReplace

SpecSoil == InitSoil /\ [][NextSoil]_vars

(* C6: soil_config_replacement overwrites a soil key with the overlay's     *)
(* value exactly when the key is in both the soil record and the overlay;   *)
(* keys only in the overlay are not added, keys only in the soil record     *)
(* keep their value, and nothing outside the soil record changes.           *)
C6_SoilFrame ==
    (pc = "soil_done" /\ HasPath) =>
        LET old == SoilOf(json_data)
            new == SoilOf(doc)
        IN /\ DOMAIN new = DOMAIN old
           /\ \A k \in DOMAIN old :
                  new[k] = IF k \in DOMAIN soil_dict THEN soil_dict[k] ELSE old[k]
           /\ EventsOf(doc) = EventsOf(json_data)
           /\ doc.shape = json_data.shape
           /\ Len(doc.docs) = Len(json_data.docs)

\* one key overwritten, one key kept for want of an overlay value, and one overlay
\* key that the soil record does not have
C6_Witness ==
    /\ pc = "soil_done" /\ HasPath
    /\ \E k \in DOMAIN SoilOf(json_data) \cap DOMAIN soil_dict :
           SoilOf(doc)[k] # SoilOf(json_data)[k]
    /\ DOMAIN SoilOf(json_data) \ DOMAIN soil_dict # {}
    /\ DOMAIN soil_dict \ DOMAIN SoilOf(json_data) # {}

----------------------------------------------------------------------------
(* The Update JSON File handler with auto-fertilization, and                *)
(* generate_autofertilization_event on its own, as a state machine          *)

Years == 2001..(2001 + MaxSpan)
FirstOfYears == 2001
LastOfYears == 2001 + MaxSpan

\* a non-crop record with the dates it carries
DatedEvent(type, dates) == ("_event_type" :> StrV(type)) @@ dates

DatedPool ==
    { DatedEvent("planting", ("start_date" :> DateV(y, 5, 1)) @@ ("end_date" :> DateV(y, 9, 30)))
        : y \in Years }
    \cup { DatedEvent("tillage", ("start_date" :> DateV(LastOfYears, 4, 1))
                                    @@ ("end_date" :> DateV(FirstOfYears, 4, 2))),
           DatedEvent("tillage", "start_date" :> DateV(FirstOfYears + 1, 4, 1)),
           DatedEvent("harvest", "end_date" :> DateV(LastOfYears, 10, 1)),
           DatedEvent("harvest", "start_date" :> EmptyDict),
           OtherEvent("autoirrigation", "drip") }

DatedLists == UNION { [1..n -> DatedPool] : n \in 0..MaxDated }

DatedInputs ==
    { Unwrapped(Doc(es, SoilSample)) : es \in DatedLists }
    \cup { Wrapped(<<Doc(es, SoilSample)>>) : es \in DatedLists }
    \cup { Unwrapped(NoPathDoc) }

\* the years handed to generate_autofertilization_event when it is called
\* directly: pairs of integers, -1 and 0 among them, at most MaxSpan apart
YearInputs == {-1, 0} \cup Years
YearPairs ==
    { p \in YearInputs \X YearInputs : p[2] - p[1] <= MaxSpan }

InitFert ==
    /\ pc = "fert"
    /\ json_data \in DatedInputs
    /\ event_dict = <<>>
    /\ soil_dict = <<>>
    /\ doc = DocNone
    /\ first = DocNone
    /\ npass = 0
    /\ lst = ListNone
    /\ years = <<None, None>>
    /\ item = ItemNone
    /\ widgets = <<>>
    /\ dataframes = <<>>
    /\ global_min_date = NaT
    /\ global_max_date = NaT
    /\ start_date = NaT
    /\ end_date = NaT
    /\ df = NoTable

\* The script up to the button, the widgets left as they are: the lists, the
\* soil record and the overlay are built from the upload.
Upload ==
    /\ pc = "fert"
    /\ lst' = input_config_list(json_data)
    /\ IF lst'.st = "ok"
       THEN /\ pc' = "uploaded"
            /\ soil_dict' = SoilOf(json_data)
            /\ event_dict' = convert_to_event_dict(lst'.data)
       ELSE /\ pc' = "failed"
            /\ UNCHANGED <<soil_dict, event_dict>>
    /\ UNCHANGED <<dash_vars, json_data, doc, first, npass, years, item, widgets>>

\* if st.button("Update JSON File"): the two replacements, then, with the
\* checkbox set, the years of data_full and the generation.  first keeps the
\* document handed to generate_autofertilization_event.
UpdateJsonFile ==
    /\ pc = "uploaded"
    /\ first' = soil_config_replacement(soil_dict,
                    input_config_replacement(event_dict, json_data))
    /\ \E add_auto_fert \in BOOLEAN :
          IF add_auto_fert
          THEN /\ years' = find_first_last_years(lst.data_full)
               /\ doc' = generate_autofertilization_event(first', years'[1], years'[2])
               /\ pc' = "fert_done"
          ELSE /\ years' = years
               /\ doc' = first'
               /\ pc' = "saved"
    /\ UNCHANGED <<dash_vars, json_data, event_dict, soil_dict, npass, lst, item, widgets>>

\* generate_autofertilization_event(json_data, json_out, first_year, last_year)
GenerateAutofertilization ==
    /\ pc = "fert"
    /\ \E p \in YearPairs :
          /\ years' = <<IntV(p[1]), IntV(p[2])>>
          /\ doc' = generate_autofertilization_event(json_data, years'[1], years'[2])
    /\ first' = json_data
    /\ pc' = "fert_done"
    /\ UNCHANGED <<dash_vars, json_data, event_dict, soil_dict, npass, lst, item, widgets>>

NextFert == Upload \/ UpdateJsonFile \/ GenerateAutofertilization

SpecFert == InitFert /\ [][NextFert]_vars

----------------------------------------------------------------------------
(* Vocabulary of the auto-fertilization properties *)

\* the record the generator is to append for a year
ExpectedAutoFert(year) ==
    ("_event_type" :> StrV("alt_fertilizer")) @@ ("method" :> StrV("auto-fertilizer"))
    @@ ("start_date" :> DateV(year, 1, 1)) @@ ("end_date" :> DateV(year, 12, 30))

\* the generator was handed a document whose events path resolves
Generated == pc = "fert_done" /\ Resolve(first).ok

\* the generator returned, and the events list is the one it was handed followed
\* by one record per year from first_year to last_year, in ascending order
AppendedPerYear ==
    /\ doc # DocError
    /\ EventsOf(doc) =
          EventsOf(first) \o [n \in 1..(years[2].n - years[1].n + 1) |->
                                 ExpectedAutoFert(years[1].n + n - 1)]
    /\ doc = WithEvents(first, EventsOf(doc))

(* C4 as stated: for integer years with first_year <= last_year the         *)
(* generator appends exactly last_year - first_year + 1 records, one per    *)
(* year in ascending order, each alt_fertilizer / auto-fertilizer from      *)
(* {year, 1, 1} to {year, 12, 30}, and leaves the records already there     *)
(* unchanged and in place.                                                  *)
C4_AppendsPerYear ==
    (Generated /\ years[1].t = "int" /\ years[2].t = "int" /\ years[1].n <= years[2].n)
        => AppendedPerYear

(* C4 amended: the same, for integer years with 0 <= first_year <=          *)
(* last_year.                                                               *)
C4_AppendsPerYearFromZero ==
    (Generated /\ years[1].t = "int" /\ years[2].t = "int"
        /\ 0 <= years[1].n /\ years[1].n <= years[2].n)
        => AppendedPerYear

\* first_year = 2001, last_year = 2003 on a document that had events: 3 appended
C4_Witness ==
    /\ Generated
    /\ years = <<IntV(2001), IntV(2003)>>
    /\ Len(EventsOf(first)) >= 1
    /\ Len(EventsOf(doc)) = Len(EventsOf(first)) + 3

\* first_year > last_year, on integers and the two infinities
EmptyRange == Less(years[2], years[1])

(* C5: for every pair with first_year > last_year, the pair that            *)
(* find_first_last_years returns for a list without a start year or without *)
(* an end year included, the generator appends nothing and completes        *)
(* without an error.                                                        *)
C5_EmptyRangeNoError ==
    (Generated /\ years[1] # None /\ EmptyRange)
        => (doc # DocError /\ doc = first)

\* the handler ran on an upload whose lists were extracted
HandlerRan == pc \in {"fert_done", "saved"} /\ lst.st = "ok"

\* the years a list of records carries under a date key
YearsUnder(es, key) ==
    { es[i][key].d[1] : i \in { n \in 1..Len(es) : key \in DOMAIN es[n]
                                                    /\ es[n][key].t = "dict"
                                                    /\ Len(es[n][key].d) = 3 } }

\* the typed records of the source list, repeats of a type included
TypedSource == RecordsAt(Source, { i \in 1..Len(Source) : IsTyped(Source[i]) })

(* C14: the years used for auto-fertilization come from every record of the *)
(* full event list, repeats included: first_year is the smallest            *)
(* start_date.year and last_year the largest end_date.year over the records *)
(* that carry the field; a record without the date does not count.          *)
C14_YearsOverFullList ==
    (HandlerRan /\ pc = "fert_done") =>
        LET starts == YearsUnder(TypedSource, "start_date")
            ends == YearsUnder(TypedSource, "end_date")
        IN /\ starts # {} =>
                  (years[1].t = "int" /\ years[1].n \in starts
                      /\ \A y \in starts : years[1].n <= y)
           /\ ends # {} =>
                  (years[2].t = "int" /\ years[2].n \in ends
                      /\ \A y \in ends : y <= years[2].n)

\* first_year comes from a record the editor does not show (a repeat of a
\* type), and a record of the list carries only one of the two dates
C14_Witness ==
    /\ HandlerRan /\ pc = "fert_done"
    /\ years[1].t = "int" /\ years[2].t = "int"
    /\ Len(lst.data) < Len(lst.data_full)
    /\ years[1].n \notin YearsUnder(lst.data, "start_date")
    /\ \E i \in 1..Len(Source) :
           ("start_date" \in DOMAIN Source[i]) # ("end_date" \in DOMAIN Source[i])

(* C17: saving with no edits is the identity on events: with the overlay    *)
(* convert_to_event_dict builds from the unedited list of input_config_list *)
(* the merge returns a document equal to the upload; a record that repeats  *)
(* a type or a crop name with other field values keeps its own values.      *)
C17_SaveWithoutEditsIsIdentity ==
    (HandlerRan /\ pc = "saved") => doc = json_data

----------------------------------------------------------------------------
(* The widgets of the script as a state machine: the upload holds one event *)
(* record, the script shows its controls and the user sets them.            *)

\* the slider positions the user picks from: the quarters of [0, 1]
Grid == { (One \div 4) * i : i \in 0..4 }

FracSum(f) == f[frac_keys[1]] + f[frac_keys[2]] + f[frac_keys[3]] + f[frac_keys[4]]

\* the fractions of a crop record: every split of 1 into quarters, and three
\* records whose fractions do not sum to 1
FracCombos ==
    { f \in [FracKeySet -> Grid] : FracSum(f) = One }
    \cup { [k \in FracKeySet |-> One \div 2],
           [k \in FracKeySet |-> IF k \in {"frac_grain", "frac_leaf"} THEN One ELSE 0],
           [k \in FracKeySet |-> 0] }

\* fields of every type the dispatch meets, after the sample data
TypedFields ==
    ("cn_grain" :> FloatV(26 * One)) @@ ("id" :> IntV(12))
    @@ ("is_perennial_crop" :> BoolV(TRUE)) @@ ("is_root_crop" :> BoolV(FALSE))
    @@ ("is_transplant" :> IntV(0)) @@ ("land_use" :> StrV("rotation_meadow"))
    @@ ("reductions" :> EmptyList) @@ ("vascularity_index" :> FloatV(0))
    @@ ("is_irrigated" :> StrV("True")) @@ ("is_tilled" :> StrV("false"))
    @@ ("note" :> None) @@ ("start_date" :> DateV(2001, 1, 1))

CropItem(f, fields) ==
    ("_event_type" :> StrV("crop")) @@ ("name" :> StrV("A"))
    @@ [k \in FracKeySet |-> FloatV(f[k])] @@ fields

IrrigationItem(depth, index) ==
    ("_event_type" :> StrV("autoirrigation")) @@ ("depth" :> FloatV(depth))
    @@ ("index" :> FloatV(index)) @@ ("method" :> StrV("drip")) @@ TypedFields

WidgetItems ==
    { CropItem(f, "tdd" :> FloatV(1200 * One)) : f \in FracCombos }
    \cup { CropItem([k \in FracKeySet |-> One \div 4], TypedFields) }
    \cup { IrrigationItem(depth, index) :
             depth \in {0, 50 * One, 250 * One}, index \in {One, -One} }

InitWidgets ==
    /\ pc = "widgets"
    /\ json_data \in { Unwrapped(Doc(<<it>>, SoilSample)) : it \in WidgetItems }
    /\ lst = input_config_list(json_data)
    /\ event_dict = <<>>
    /\ soil_dict = <<>>
    /\ doc = DocNone
    /\ first = DocNone
    /\ npass = 0
    /\ years = <<None, None>>
    /\ item = ItemNone
    /\ widgets = <<>>
    /\ dataframes = <<>>
    /\ global_min_date = NaT
    /\ global_max_date = NaT
    /\ start_date = NaT
    /\ end_date = NaT
    /\ df = NoTable

\* what a run of display_widgets leaves: the record, the controls, and the
\* overlay the script builds from the record when no control raised
Rendered(r) ==
    /\ item' = r.item
    /\ widgets' = r.shown
    /\ pc' = IF r.ok THEN "shown" ELSE "widget_error"
    /\ event_dict' = IF r.ok THEN convert_to_event_dict(<<r.item>>) ELSE event_dict
    /\ UNCHANGED <<dash_vars, json_data, soil_dict, doc, first, npass, lst, years>>

\* for i, crop_name in enumerate(crop_names): display_widgets('crop', crop_data)
RenderCrop ==
    /\ pc = "widgets"
    /\ Len(lst.crop_names) = 1
    /\ \E picks \in [FracKeySet -> {-1} \cup Grid], rename, change \in BOOLEAN :
          Rendered(display_widgets(lst.data[1], picks,
                                   IF rename THEN "B" ELSE lst.data[1]["name"].s,
                                   change))

\* for i, event_type in enumerate(other_events): display_widgets(event_type, other_data)
RenderOther ==
    /\ pc = "widgets"
    /\ Len(lst.other_events) = 1
    /\ \E change \in BOOLEAN :
          Rendered(display_widgets(lst.data[1], [k \in FracKeySet |-> -1],
                                   "", change))

NextWidgets == RenderCrop \/ RenderOther

SpecWidgets == InitWidgets /\ [][NextWidgets]_vars

----------------------------------------------------------------------------
(* Vocabulary of the widget properties *)

\* the record as it was before display_widgets
Original == lst.data[1]

\* the sum of the four fractions of a record
RecordFracSum(rec) ==
    rec[frac_keys[1]].n + rec[frac_keys[2]].n + rec[frac_keys[3]].n + rec[frac_keys[4]].n

\* the fraction sliders the user moved away from the value they showed
Moved == { k \in FracKeySet \cap DOMAIN widgets : widgets[k].ret # widgets[k].shown }

\* the kind of control shown for a field
KindOf(k) == IF k \in DOMAIN widgets THEN widgets[k].kind ELSE "none"

\* the kind the precedence fixes for a value; unknown is the kind for a value of
\* an unrecognized type
KindFor(value, unknown) ==
    CASE value.t = "str" /\ LowerStr(value.s) \in {"true", "false"} -> "checkbox"
      [] value.t = "bool" -> "checkbox"
      [] value.t = "int" -> "number_input"
      [] value.t = "float" -> "slider"
      [] value.t = "str" -> "text_input"
      [] OTHER -> unknown

(* C9: for a crop record whose four fractions sum to 1 and a single slider  *)
(* adjustment, the four fractions stored by display_widgets sum to 1.       *)
C9_FractionsSumToOne ==
    (pc = "shown" /\ IsCrop(Original) /\ RecordFracSum(Original) = One
        /\ Cardinality(Moved) = 1)
        => RecordFracSum(item) = One

\* one slider was moved and the other three fractions were rebalanced
C9_Witness ==
    /\ pc = "shown" /\ IsCrop(Original) /\ RecordFracSum(Original) = One
    /\ Cardinality(Moved) = 1
    /\ \A k \in FracKeySet : item[k] # Original[k]

(* C10 as stated: outside the crop fraction fields and '_event_type', a     *)
(* boolean-like string and a boolean get a checkbox, an integer a numeric   *)
(* input, a float a slider, any other string a text input, and a value of   *)
(* an unrecognized type (a list, a mapping, null) a text input too.         *)
C10_KindsFreeTextFallback ==
    pc = "shown" =>
        \A k \in GenericKeys(IsCrop(Original), Original) :
            KindOf(k) = KindFor(Original[k], "text_input")

(* C10 amended: the same precedence, but a value of an unrecognized type    *)
(* gets no control at all and keeps its value.                              *)
C10_KindsNoControlFallback ==
    pc = "shown" =>
        \A k \in GenericKeys(IsCrop(Original), Original) :
            /\ KindOf(k) = KindFor(Original[k], "none")
            /\ KindOf(k) = "none" => item[k] = Original[k]

\* a record with a field of every type has been through the dispatch
C10_Witness ==
    /\ pc = "shown"
    /\ { Original[k].t : k \in GenericKeys(IsCrop(Original), Original) } =
          {"str", "bool", "int", "float", "list", "dict", "null"}
    /\ { KindOf(k) : k \in DOMAIN Original } =
          {"checkbox", "number_input", "slider", "text_input", "none"}

(* C11: after display_widgets has processed an event record, every field of *)
(* the record holds a value of the type (boolean, integer, float or string) *)
(* it held before, for every record and every choice on the controls.       *)
C11_TypesPreserved ==
    pc = "shown" =>
        (DOMAIN item = DOMAIN Original
            /\ \A k \in DOMAIN Original : item[k].t = Original[k].t)

(* C15: the name of a crop record is not among the edited fields: after     *)
(* display_widgets the record holds the name it held before, and the        *)
(* overlay built from it holds an entry that matches the source record by   *)
(* name.                                                                    *)
C15_NameKept ==
    (pc = "shown" /\ IsCrop(Original)) =>
        /\ item["name"] = Original["name"]
        /\ "crop" \in DOMAIN event_dict
        /\ \E n \in 1..Len(event_dict["crop"]) :
               NameMatches(Original, event_dict["crop"][n])

\* each of the four fractions of a record lies in [0, 1]
FracsInUnit(rec) == \A k \in FracKeySet : 0 <= rec[k].n /\ rec[k].n <= One

(* C18: for a crop record whose four fractions each lie in [0, 1] and sum   *)
(* to 1 and slider values chosen in [0, 1], every fraction display_widgets  *)
(* stores lies in [0, 1], and every fraction slider is shown with a value   *)
(* inside its range.                                                        *)
C18_FractionsStayInUnit ==
    (pc \in {"shown", "widget_error"} /\ IsCrop(Original)
        /\ FracsInUnit(Original) /\ RecordFracSum(Original) = One)
        => /\ FracsInUnit(item)
           /\ \A k \in FracKeySet \cap DOMAIN widgets :
                  /\ widgets[k].ok
                  /\ widgets[k].lo <= widgets[k].shown.n
                  /\ widgets[k].shown.n <= widgets[k].hi

\* the upper bound of the slider of a float field outside the fractions
SliderMax(is_crop, key, value) ==
    IF ~is_crop /\ ContainsDepth(key) THEN 200 * One
    ELSE IF value.n = 0 THEN One
    ELSE value.n * 3

(* C19: every float field the dispatch presents as a slider holds a value   *)
(* inside the slider's bounds: 0 <= value <= max, max being 200 for a       *)
(* non-crop field whose name contains "depth", 1 for the value 0 and        *)
(* value * 3 otherwise; negative values and depths above 200 included.      *)
C19_SliderValueInBounds ==
    pc \in {"shown", "widget_error"} =>
        \A k \in GenericKeys(IsCrop(Original), Original) \cap DOMAIN widgets :
            widgets[k].kind = "slider" =>
                /\ widgets[k].lo = 0
                /\ widgets[k].hi = SliderMax(IsCrop(Original), k, Original[k])
                /\ 0 <= widgets[k].shown.n
                /\ widgets[k].shown.n <= widgets[k].hi
                /\ widgets[k].ok

----------------------------------------------------------------------------
(* return_output_df on its own, as a state machine: a table and a date      *)
(* range drawn from the sets below.                                         *)

\* the longest table handed to return_output_df
MaxRows == 3

YearDay == <<"Year", "Day">>

\* rows [Year, Day]: the last day of 2019, Feb 29 and Dec 31 of the leap year
\* 2020, the first day of 2021, a year of three digits and a day 0
RowPool ==
    { <<2019, 365>>, <<2020, 60>>, <<2020, 366>>, <<2021, 1>>, <<202, 12>>, <<2020, 0>> }

TableData == UNION { [1..n -> RowPool] : n \in 0..MaxRows }

\* the dates the caller picks from
DateChoices ==
    { JanFirst(2019) + 364, JanFirst(2020) + 59, JanFirst(2020) + 365,
      JanFirst(2021), JanFirst(2021) + 1, JanFirst(2021) + 2 }

\* the configuration editor is not running
ConfigIdle ==
    /\ event_dict = <<>>
    /\ soil_dict = <<>>
    /\ doc = DocNone
    /\ first = DocNone
    /\ npass = 0
    /\ lst = ListNone
    /\ years = <<None, None>>
    /\ item = ItemNone
    /\ widgets = <<>>

config_vars == <<event_dict, soil_dict, doc, first, npass, lst, years, item, widgets>>

InitDates ==
    /\ pc = "dates"
    /\ json_data \in { << [category |-> "table",
                           category_data |-> ("columns" :> YearDay) @@ ("data" :> data)] >>
                         : data \in TableData }
    /\ dataframes = convert_json_to_dfs_updated(json_data)
    /\ global_min_date = NaT
    /\ global_max_date = NaT
    /\ start_date = NaT
    /\ end_date = NaT
    /\ df = NoTable
    /\ ConfigIdle

\* what a call of return_output_df leaves
Returned(r, min_date, max_date, done, failed) ==
    /\ start_date' = min_date
    /\ end_date' = max_date
    /\ df' = r.df
    /\ dataframes' = r.dataframes
    /\ pc' = IF r.ok THEN done ELSE failed
    /\ UNCHANGED <<json_data, global_min_date, global_max_date, config_vars>>

\* return_output_df(dataframes, column, min_date=..., max_date=...)
ReturnOutputDf ==
    /\ pc = "dates"
    /\ \E min_date, max_date \in DateChoices :
          Returned(return_output_df(dataframes, "table", min_date, max_date),
                   min_date, max_date, "filtered", "filter_error")

\* return_output_df(dataframes, column): the bounds default to 1900-01-01 and
\* 3000-01-01
ReturnOutputDfDefault ==
    /\ pc = "dates"
    /\ Returned(return_output_df(dataframes, "table", Timestamp1900, Timestamp3000),
                Timestamp1900, Timestamp3000, "filtered", "filter_error")

NextDates == ReturnOutputDf \/ ReturnOutputDfDefault

SpecDates == InitDates /\ [][NextDates]_vars

----------------------------------------------------------------------------
(* Vocabulary of the date filter properties *)

\* the rows of the table handed to return_output_df, as [Year, Day] pairs
TableRows == json_data[1].category_data["data"]

\* Jan 1 of Year plus Day - 1 days
DayOfYearDate(row) == JanFirst(row[1]) + row[2] - 1

\* the rows whose date lies in [start_date, end_date], in the table's order
RowsInRange ==
    LET Within(row) == start_date <= DayOfYearDate(row) /\ DayOfYearDate(row) <= end_date
    IN SelectSeq(TableRows, Within)

\* return_output_df returned exactly the rows in range, each with its date
ReturnedRowsInRange ==
    /\ pc = "filtered"
    /\ [i \in 1..Len(df.rows) |-> <<df.rows[i]["Year"], df.rows[i]["Day"]>>] = RowsInRange
    /\ \A i \in 1..Len(df.rows) :
           df.rows[i]["Date"] = DayOfYearDate(<<df.rows[i]["Year"], df.rows[i]["Day"]>>)

\* every Year of the table has four digits, the width %Y reads
FourDigitYears ==
    \A i \in 1..Len(TableRows) : 1000 <= TableRows[i][1] /\ TableRows[i][1] <= 9999

(* C13 as stated: return_output_df returns exactly the rows whose           *)
(* reconstructed date (Jan 1 of Year plus Day - 1 days) satisfies           *)
(* min_date <= Date <= max_date, both bounds inclusive, in the original     *)
(* order; with min_date = max_date = d only the rows dated d, with          *)
(* min_date > max_date no rows.                                             *)
C13_RowsInRange ==
    pc = "filtered" => ReturnedRowsInRange

(* C13 amended: the same, for a table whose Year values have four digits.   *)
C13_RowsInRangeOfFourDigitYears ==
    (pc = "filtered" /\ FourDigitYears) => ReturnedRowsInRange

\* min_date = max_date = d on a table with a row before d, a row dated d and a
\* row after d: only the row dated d is returned
C13_Witness ==
    /\ pc = "filtered" /\ FourDigitYears
    /\ start_date = end_date
    /\ Len(TableRows) = 3 /\ Len(df.rows) = 1
    /\ \E i \in 1..3 : DayOfYearDate(TableRows[i]) < start_date
    /\ \E i \in 1..3 : DayOfYearDate(TableRows[i]) > end_date

----------------------------------------------------------------------------
(* The dashboard script as a state machine: an uploaded document is         *)
(* converted, the dates are scanned and a table is filtered for a plot.     *)

\* category structures: two dated tables, one early and one late, an empty
\* table, a table without Year and Day, a structure without 'columns', one
\* without 'data', and one whose row is shorter than its columns
Early == ("columns" :> YearDay) @@ ("data" :> << <<2019, 365>>, <<2020, 60>> >>)
Late == ("columns" :> YearDay) @@ ("data" :> << <<2020, 366>>, <<2021, 1>> >>)
Empty == ("columns" :> YearDay) @@ ("data" :> <<>>)
Undated == ("columns" :> <<"N2O">>) @@ ("data" :> << <<5>> >>)
NoColumns == ("data" :> << <<2020, 60>> >>)
NoData == ("columns" :> YearDay)
Ragged == ("columns" :> YearDay) @@ ("data" :> << <<2020>> >>)

StructurePool == { Early, Late, Empty, Undated, NoColumns, NoData, Ragged }

\* the crop names of an upload, in the order of the document
CropKeys == <<"wheat", "maize">>

\* the 'crops' category: a mapping from crop name to structure
CropMaps ==
    UNION { { [i \in 1..n |-> [crop_key |-> CropKeys[i], crop_data |-> f[i]]]
                : f \in [1..n -> StructurePool] } : n \in 0..Len(CropKeys) }

Category(name, data) == [category |-> name, category_data |-> data]

\* the uploads: one or two categories, 'crops' first or last
DashInputs ==
    { <<>> }
    \cup { <<Category("soil", x)>> : x \in StructurePool }
    \cup { <<Category("crops", c)>> : c \in CropMaps }
    \cup { <<Category("soil", x), Category("crops", c)>> : x \in StructurePool, c \in CropMaps }
    \cup { <<Category("crops", c), Category("soil", x)>> : x \in StructurePool, c \in CropMaps }
    \cup { <<Category("soil", x), Category("water", y)>> : x, y \in StructurePool }

InitDash ==
    /\ pc = "dash"
    /\ json_data \in DashInputs
    /\ dataframes = <<>>
    /\ global_min_date = NaT
    /\ global_max_date = NaT
    /\ start_date = NaT
    /\ end_date = NaT
    /\ df = NoTable
    /\ ConfigIdle

\* if json_data: dataframes = convert_json_to_dfs_updated(json_data)
ConvertJson ==
    /\ pc = "dash"
    /\ json_data # <<>>
    /\ dataframes' = convert_json_to_dfs_updated(json_data)
    /\ pc' = "converted"
    /\ UNCHANGED <<json_data, global_min_date, global_max_date, start_date, end_date, df,
                   config_vars>>

\* if dataframes: the scan, then the two date inputs, left at the values they
\* show.  An exception of the scan or of a date input ends the run.
ScanDates ==
    /\ pc = "converted"
    /\ dataframes # <<>>
    /\ LET st == ScanLoop(ScanStart, dataframes) IN
       IF ~st.ok
       THEN /\ pc' = "scan_error"
            /\ UNCHANGED <<global_min_date, global_max_date, start_date, end_date>>
       ELSE /\ global_min_date' = st.global_min_date
            /\ global_max_date' = st.global_max_date
            /\ IF DateInputOk(st.global_min_date, st.global_max_date, st.global_min_date)
                   /\ DateInputOk(st.global_min_date, st.global_max_date, st.global_max_date)
               THEN /\ pc' = "ranged"
                    /\ start_date' = st.global_min_date
                    /\ end_date' = st.global_max_date
               ELSE /\ pc' = "range_error"
                    /\ UNCHANGED <<start_date, end_date>>
    /\ UNCHANGED <<json_data, dataframes, df, config_vars>>

\* df = return_output_df(dataframes, cat, min_date=start_date, max_date=end_date)
\* for the selected category
PlotCategory ==
    /\ pc = "ranged"
    /\ \E i \in 1..Len(dataframes) :
          /\ dataframes[i].category # "crops"
          /\ Returned(return_output_df(dataframes, dataframes[i].category,
                                       start_date, end_date),
                      start_date, end_date, "plotted", "plot_error")

\* df = return_output_df({'crops': selected_crop_df}, 'crops', ...) for the
\* selected crop; the crop's table in dataframes gains the Date column
PlotCrop ==
    /\ pc = "ranged"
    /\ \E i \in 1..Len(dataframes) :
          /\ dataframes[i].category = "crops"
          /\ \E k \in 1..Len(dataframes[i].df) :
                LET r == return_output_df(
                             <<[category |-> "crops", df |-> dataframes[i].df[k].df]>>,
                             "crops", start_date, end_date)
                IN Returned([r EXCEPT !.dataframes =
                                [dataframes EXCEPT ![i].df[k].df = r.dataframes[1].df]],
                            start_date, end_date, "plotted", "plot_error")

NextDash == ConvertJson \/ ScanDates \/ PlotCategory \/ PlotCrop

SpecDash == InitDash /\ [][NextDash]_vars

----------------------------------------------------------------------------
(* Vocabulary of the dashboard properties *)

\* the structure carries both keys and its rows fit its columns
WellFormed(structure) ==
    /\ {"columns", "data"} \subseteq DOMAIN structure
    /\ \A i \in 1..Len(structure["data"]) :
           Len(structure["data"][i]) = Len(structure["columns"])

\* the structure lacks one of the expected keys
LacksKeys(structure) == ~({"columns", "data"} \subseteq DOMAIN structure)

\* the categories of the Category Map
Categories == { dataframes[i].category : i \in 1..Len(dataframes) }

\* a category of the upload lacks the expected keys: for 'crops', one of its
\* crop entries does
CategoryLacksKeys(entry) ==
    IF entry.category = "crops"
    THEN \E k \in 1..Len(entry.category_data) : LacksKeys(entry.category_data[k].crop_data)
    ELSE LacksKeys(entry.category_data)

CategoryWellFormed(entry) ==
    IF entry.category = "crops"
    THEN \A k \in 1..Len(entry.category_data) : WellFormed(entry.category_data[k].crop_data)
    ELSE WellFormed(entry.category_data)

\* the number of rows the upload gives a table
RowCount(structure) == Len(structure["data"])

(* C12: a category whose structure lacks the 'columns' / 'data' keys (for   *)
(* 'crops': any crop entry lacking them) is absent from the returned        *)
(* Category Map, every well-formed category of the same document is         *)
(* extracted, and no error reaches the caller.                              *)
C12_MalformedCategorySkipped ==
    pc = "converted" =>
        \A n \in 1..Len(json_data) :
            LET entry == json_data[n] IN
            /\ CategoryLacksKeys(entry) => entry.category \notin Categories
            /\ CategoryWellFormed(entry) =>
                  /\ entry.category \in Categories
                  /\ IF entry.category = "crops"
                     THEN LET crops == Lookup(dataframes, "crops") IN
                          /\ Len(crops) = Len(entry.category_data)
                          /\ \A k \in 1..Len(crops) :
                                 /\ crops[k].crop_key = entry.category_data[k].crop_key
                                 /\ Len(crops[k].df.rows) =
                                        RowCount(entry.category_data[k].crop_data)
                     ELSE Len(Lookup(dataframes, entry.category).rows) =
                              RowCount(entry.category_data)

\* every table of the Category Map, the crop tables included
AllTables ==
    UNION { IF dataframes[i].category = "crops"
            THEN { dataframes[i].df[k].df : k \in 1..Len(dataframes[i].df) }
            ELSE { dataframes[i].df } : i \in 1..Len(dataframes) }

\* the dates of the rows of a table that carry one
RowDates(table) ==
    LET d == DatesOf(table) IN IF d.ok THEN Range(d.dates) ELSE {}

(* C16: the date range offered runs from the global minimum to the global   *)
(* maximum reconstructed date across all tables of the Category Map, every  *)
(* crop table included: no row of any table is dated before the offered     *)
(* minimum or after the offered maximum.                                    *)
C16_OfferedRangeCoversAllRows ==
    pc = "ranged" =>
        \A table \in AllTables : \A date \in RowDates(table) :
            global_min_date <= date /\ date <= global_max_date

====
